---- MODULE Spec2Model ----
(***************************************************************************)
(* A model of src/eleventy.config.js: the collections, the transforms the  *)
(* build engine runs over each output file, the absolute-URL filter, the   *)
(* CSS/JS compile steps and the asynchronous 'css' filter.                 *)
(*                                                                         *)
(* JavaScript strings the code inspects (paths, the filter's content) are  *)
(* sequences of one-character strings, so that endsWith and the regular    *)
(* expression are computed character by character.                         *)
(***************************************************************************)
EXTENDS Integers, Sequences, FiniteSets, TLC

VARIABLES
    items,        \* the engine's template items: <<[inputPath, draft], ...>>
    built,        \* the collections whose callback has been run
    collection,   \* collection name -> the sequence its callback returned
    path,         \* the output path of the file the engine is transforming
    original,     \* the content the template engine produced for it
    content,      \* the content as the transforms so far have left it
    step,         \* index in Registered of the transform to run next
    engine,       \* "running", "done" or "aborted"
    engineError,  \* the error the engine received from a transform
    log,          \* one record per finished transform: name, input, output
    tstate,       \* html-transform's call: "idle", "looping", "resolved", "rejected"
    window,       \* the document html-transform parsed
    loopIdx,      \* index in HtmlTransforms of the loop's current pass
    passState,    \* pass -> "idle", "running", "suspended", "done", "threw"
    seen,         \* pass -> the document nodes as the pass received them
    awaited,      \* the passes that returned a pending promise
    parses,       \* number of calls of dom.parseHTML
    returned,     \* what html-transform's promise resolved with
    thrown,       \* the error a pass raised, if one did
    rejection,    \* what html-transform's promise rejected with
    absContent,   \* the 'absolute' filter's content argument
    absArticle,   \* its article argument: [url |-> ...]
    absOutput,    \* the string it returned
    absPc,        \* "ready" before the call, "done" after it
    tplPath,      \* the css or js template the engine compiles
    tplExt,       \* the extension it is registered under: "css" or "js"
    compiled,     \* "pending", or what compile returned: "undefined", "render"
    rendered,     \* "no", or how the render function ended: "ok", "failed"
    procCalls,    \* calls of postcss / esbuild made for the template
    emitted,      \* whether the engine wrote an output file for it
    fPc,          \* the 'css' filter's call: "idle", "reading", "processing",
                  \* "calledback", "unhandled", "crashed", "hung"
    fRead,        \* how fs.readFile ended: "pending", "ok", "error"
    fProcess,     \* how postcss ended: "pending", "resolved", "rejected"
    cbCalls       \* the calls of the filter's callback: <<[err, css], ...>>

collVars == <<items, built, collection>>

htmlVars == <<path, original, content, step, engine, engineError, log, tstate,
              window, loopIdx, passState, seen, awaited, parses, returned,
              thrown, rejection>>

absVars == <<absContent, absArticle, absOutput, absPc>>

tplVars == <<tplPath, tplExt, compiled, rendered, procCalls, emitted>>

filterVars == <<fPc, fRead, fProcess, cbCalls>>

vars == <<collVars, htmlVars, absVars, tplVars, filterVars>>

----------------------------------------------------------------------------
(* Bounds of the model *)

MaxItems == 3

MaxContent == 2

MaxChunks == 4

----------------------------------------------------------------------------
(* Generic helpers *)

Count(s, x) == Cardinality({i \in 1..Len(s) : s[i] = x})

----------------------------------------------------------------------------
(* Collections                                                              *)

\* The globs of `collections`, one pattern per path segment.
ArticlesGlob == <<"src", "articles", "*", "index.md">>
PagesGlob == <<"src", "pages", "!(404)", "index.njk">>

\* One segment of a glob against one segment of a path.
SegmentMatch(pat, seg) ==
    CASE pat = "*" -> TRUE
      [] pat = "!(404)" -> seg # "404"
      [] OTHER -> pat = seg

GlobMatch(glob, inputPath) ==
    /\ Len(glob) = Len(inputPath)
    /\ \A i \in 1..Len(glob) : SegmentMatch(glob[i], inputPath[i])

\* collectionApi.getFilteredByGlob: the items whose input path matches one
\* of the globs, each item once, in the engine's order.
GetFilteredByGlob(all, globs) ==
    LET Matches(item) == \E g \in globs : GlobMatch(g, item.inputPath)
    IN  SelectSeq(all, Matches)

NotDraft_Falsy(item) == item.data.draft = "false"

NotDraft_None(item) == TRUE

\* article => article.data.draft !== true
NotDraft(item) == item.data.draft # "true"

ArticlesCollection(all) ==
    SelectSeq(GetFilteredByGlob(all, {ArticlesGlob}), NotDraft)

SitemapCollection(all) ==
    SelectSeq(GetFilteredByGlob(all, {ArticlesGlob, PagesGlob}), NotDraft)

\* The source files the model draws items from.
InputPaths ==
    { <<"src", "articles", "a", "index.md">>,
      <<"src", "articles", "b", "index.md">>,
      <<"src", "articles", "a", "demo", "index.md">>,
      <<"src", "articles", "a", "index.njk">>,
      <<"src", "pages", "about", "index.njk">>,
      <<"src", "pages", "404", "index.njk">> }

\* The values of the front-matter's draft flag: true, false, or not set.
DraftValues == {"true", "false", "undefined"}

ItemValues == [inputPath : InputPaths, data : [draft : DraftValues]]

ItemLists ==
    { s \in UNION { [1..n -> ItemValues] : n \in 0..MaxItems } :
        \A i, j \in 1..Len(s) : i # j => s[i].inputPath # s[j].inputPath }

CollStart(all) ==
    /\ items = all
    /\ built = {}
    /\ collection = [articles |-> <<>>, sitemap |-> <<>>]

\* config.addCollection('articles', ...): the engine calls the callback.
BuildArticles ==
    /\ "articles" \notin built
    /\ collection' = [collection EXCEPT !.articles = ArticlesCollection(items)]
    /\ built' = built \cup {"articles"}
    /\ UNCHANGED <<items, htmlVars, absVars, tplVars, filterVars>>

\* config.addCollection('sitemap', ...)
BuildSitemap ==
    /\ "sitemap" \notin built
    /\ collection' = [collection EXCEPT !.sitemap = SitemapCollection(items)]
    /\ built' = built \cup {"sitemap"}
    /\ UNCHANGED <<items, htmlVars, absVars, tplVars, filterVars>>

CollNext == BuildArticles \/ BuildSitemap

----------------------------------------------------------------------------
(* The transforms the engine runs over one output file                      *)

DotHtml == <<".", "h", "t", "m", "l">>
DotXml == <<".", "x", "m", "l">>

\* String.prototype.endsWith
EndsWith(s, suffix) ==
    /\ Len(s) >= Len(suffix)
    /\ SubSeq(s, Len(s) - Len(suffix) + 1, Len(s)) = suffix

\* `path && path.endsWith(ext)`: false for a path that is false, undefined
\* or the empty string.
PathEndsWith(p, ext) ==
    /\ p.present
    /\ p.chars # <<>>
    /\ EndsWith(p.chars, ext)

\* Content is a sequence of tokens: text, a run of white space, a comment;
\* the passes add tokens of their own.
RECURSIVE CollapseWhitespace(_)
CollapseWhitespace(c) ==
    IF Len(c) < 2 THEN c
    ELSE IF c[1] = "ws" /\ c[2] = "ws" THEN CollapseWhitespace(Tail(c))
         ELSE <<c[1]>> \o CollapseWhitespace(Tail(c))

\* htmlMin.minify with removeComments and collapseWhitespace.
Minify(c) ==
    LET NotComment(t) == t # "cmt"
    IN  CollapseWhitespace(SelectSeq(c, NotComment))

\* prettyData.pd.xmlmin: comments and the white space between tags go.
PdXmlMin(c) ==
    LET Kept(t) == t \notin {"cmt", "ws"}
    IN  SelectSeq(c, Kept)

HtmlMinify_Always(c, p) == Minify(c)

\* The callback of config.addTransform('html-minify').
HtmlMinify(c, p) == IF PathEndsWith(p, DotHtml) THEN Minify(c) ELSE c

\* The callback of config.addTransform('xmlMin').
XmlMinTransform(c, p) == IF PathEndsWith(p, DotXml) THEN PdXmlMin(c) ELSE c

\* The transforms in the order the configuration registers them; the
\* engine runs them in this order, awaiting each.
Registered == <<"html-minify", "html-transform", "xmlMin">>

\* The passes, in the order of the htmlTransforms array.
HtmlTransforms == <<"anchors", "demos", "figure", "images", "prism">>

Passes == {HtmlTransforms[i] : i \in 1..Len(HtmlTransforms)}

PassIndex(p) == CHOOSE i \in 1..Len(HtmlTransforms) : HtmlTransforms[i] = p

\* dom.parseHTML and window.document.toString()
ParseHTML(c) == [document |-> c]
DocumentToString(w) == w.document

\* What a pass does to the document: it leaves its own markup in it.
PassMutation(w, p) == [w EXCEPT !.document = Append(@, p)]

LoopMayAdvance_NoAwait(state) == state \in {"done", "suspended"}

\* `await transform(...)`: the loop goes on once the pass has completed.
LoopMayAdvance(state) == state = "done"

SettledState_Swallowed(ok) == "done"

\* A pass that returns (or whose promise resolves) has completed; one that
\* throws (or whose promise rejects) has failed.
SettledState(ok) == IF ok THEN "done" ELSE "threw"

NoError == "none"

\* Nothing catches around the await: html-transform's promise rejects with
\* the very error the pass raised.
Rejection(e) == e
Errors == {"E1", "E2"}

OutputPaths ==
    { [present |-> FALSE, chars |-> <<>>],
      [present |-> TRUE, chars |-> <<>>],
      [present |-> TRUE, chars |-> <<"a">> \o DotHtml],
      [present |-> TRUE, chars |-> <<"a">> \o DotXml],
      [present |-> TRUE, chars |-> <<"a", ".", "c", "s", "s">>],
      [present |-> TRUE, chars |-> <<"a">> \o DotHtml \o <<"~">>],
      [present |-> TRUE, chars |-> <<"a">> \o DotXml \o <<"~">>],
      [present |-> TRUE, chars |-> <<"h", "t", "m", "l">>] }

Tokens == {"txt", "ws", "cmt"}

Contents == UNION { [1..n -> Tokens] : n \in 0..MaxContent }

HtmlStart(p, c) ==
    /\ path = p
    /\ original = c
    /\ content = c
    /\ step = 1
    /\ engine = "running"
    /\ engineError = NoError
    /\ log = <<>>
    /\ tstate = "idle"
    /\ window = ParseHTML(<<>>)
    /\ loopIdx = 0
    /\ passState = [p2 \in Passes |-> "idle"]
    /\ seen = [p2 \in Passes |-> <<>>]
    /\ awaited = {}
    /\ parses = 0
    /\ returned = [has |-> FALSE, value |-> <<>>]
    /\ thrown = [raised |-> FALSE, error |-> NoError, pass |-> "none"]
    /\ rejection = NoError

\* The engine takes a transform's result and moves to the next transform.
EngineTakes(name, out) ==
    /\ log' = Append(log, [t |-> name, in |-> content, out |-> out])
    /\ content' = out
    /\ step' = step + 1
    /\ engine' = IF step = Len(Registered) THEN "done" ELSE "running"

EngineAt(name) ==
    /\ engine = "running"
    /\ step <= Len(Registered)
    /\ Registered[step] = name

htmlTransformVars ==
    <<tstate, window, loopIdx, passState, seen, awaited, parses, returned,
      thrown, rejection>>

\* html-minify is synchronous: the whole callback is one step.
RunHtmlMinify ==
    /\ EngineAt("html-minify")
    /\ EngineTakes("html-minify", HtmlMinify(content, path))
    /\ UNCHANGED <<path, original, engineError, htmlTransformVars, collVars, absVars, tplVars, filterVars>>

\* xmlMin is synchronous too.
RunXmlMin ==
    /\ EngineAt("xmlMin")
    /\ EngineTakes("xmlMin", XmlMinTransform(content, path))
    /\ UNCHANGED <<path, original, engineError, htmlTransformVars, collVars, absVars, tplVars, filterVars>>

\* The engine calls html-transform: up to the first await, or to the
\* return for a path that is not HTML.
HtmlTransformCall ==
    /\ EngineAt("html-transform")
    /\ tstate = "idle"
    /\ IF PathEndsWith(path, DotHtml)
       THEN /\ window' = ParseHTML(content)
            /\ parses' = parses + 1
            /\ loopIdx' = 1
            /\ tstate' = "looping"
            /\ UNCHANGED returned
       ELSE /\ returned' = [has |-> TRUE, value |-> content]
            /\ tstate' = "resolved"
            /\ UNCHANGED <<window, parses, loopIdx>>
    /\ UNCHANGED <<path, original, content, step, engine, engineError, log,
                   passState, seen, awaited, thrown, rejection, collVars, absVars, tplVars, filterVars>>

\* The loop calls its current pass, which returns having mutated the
\* document, returns a pending promise, or throws.
PassCall ==
    /\ tstate = "looping"
    /\ loopIdx \in 1..Len(HtmlTransforms)
    /\ passState[HtmlTransforms[loopIdx]] = "idle"
    /\ LET p == HtmlTransforms[loopIdx] IN
        /\ seen' = [seen EXCEPT ![p] = window.document]
        /\ \/ /\ passState' = [passState EXCEPT ![p] = SettledState(TRUE)]
              /\ window' = PassMutation(window, p)
              /\ UNCHANGED <<tstate, thrown, rejection, awaited>>
           \/ /\ passState' = [passState EXCEPT ![p] = "suspended"]
              /\ awaited' = awaited \cup {p}
              /\ UNCHANGED <<window, tstate, thrown, rejection>>
           \/ \E e \in Errors :
              /\ passState' = [passState EXCEPT ![p] = SettledState(FALSE)]
              /\ thrown' = [raised |-> TRUE, error |-> e, pass |-> p]
              /\ tstate' = IF SettledState(FALSE) = "threw"
                           THEN "rejected" ELSE tstate
              /\ rejection' = IF SettledState(FALSE) = "threw"
                              THEN Rejection(e) ELSE rejection
              /\ UNCHANGED <<window, awaited>>
    /\ UNCHANGED <<path, original, content, step, engine, engineError, log,
                   loopIdx, parses, returned, collVars, absVars, tplVars, filterVars>>

\* A suspended pass resumes: it finishes its mutation, or its promise
\* rejects.
PassSettle ==
    /\ tstate = "looping"
    /\ \E p \in Passes :
        /\ passState[p] = "suspended"
        /\ \/ /\ passState' = [passState EXCEPT ![p] = SettledState(TRUE)]
              /\ window' = PassMutation(window, p)
              /\ UNCHANGED <<tstate, thrown, rejection>>
           \/ \E e \in Errors :
              /\ passState' = [passState EXCEPT ![p] = SettledState(FALSE)]
              /\ thrown' = [raised |-> TRUE, error |-> e, pass |-> p]
              /\ tstate' = IF SettledState(FALSE) = "threw"
                           THEN "rejected" ELSE tstate
              /\ rejection' = IF SettledState(FALSE) = "threw"
                              THEN Rejection(e) ELSE rejection
              /\ UNCHANGED window
    /\ UNCHANGED <<path, original, content, step, engine, engineError, log,
                   loopIdx, seen, awaited, parses, returned, collVars, absVars, tplVars, filterVars>>

\* The await is over: the loop takes the next pass, or after the last one
\* html-transform returns window.document.toString().
LoopAdvance ==
    /\ tstate = "looping"
    /\ loopIdx \in 1..Len(HtmlTransforms)
    /\ LoopMayAdvance(passState[HtmlTransforms[loopIdx]])
    /\ IF loopIdx < Len(HtmlTransforms)
       THEN /\ loopIdx' = loopIdx + 1
            /\ UNCHANGED <<tstate, returned>>
       ELSE /\ returned' = [has |-> TRUE, value |-> DocumentToString(window)]
            /\ tstate' = "resolved"
            /\ UNCHANGED loopIdx
    /\ UNCHANGED <<path, original, content, step, engine, engineError, log,
                   window, passState, seen, awaited, parses, thrown,
                   rejection, collVars, absVars, tplVars, filterVars>>

\* The engine's await of html-transform ends with the returned content.
EngineResume ==
    /\ EngineAt("html-transform")
    /\ tstate = "resolved"
    /\ EngineTakes("html-transform", returned.value)
    /\ UNCHANGED <<path, original, engineError, htmlTransformVars, collVars, absVars, tplVars, filterVars>>

\* The engine's await of html-transform ends with the rejection: the
\* build of this file stops with that error.
EngineAbort ==
    /\ EngineAt("html-transform")
    /\ tstate = "rejected"
    /\ engine' = "aborted"
    /\ engineError' = rejection
    /\ UNCHANGED <<path, original, content, step, log, htmlTransformVars,
                   collVars, absVars, tplVars, filterVars>>

HtmlNext ==
    \/ RunHtmlMinify
    \/ HtmlTransformCall
    \/ PassCall
    \/ PassSettle
    \/ LoopAdvance
    \/ EngineResume
    \/ EngineAbort
    \/ RunXmlMin

----------------------------------------------------------------------------
(* The 'absolute' filter                                                    *)

SrcQuote == <<"s", "r", "c", "=", "\"">>
HrefQuote == <<"h", "r", "e", "f", "=", "\"">>
Slash == <<"/">>
Quote == <<"\"">>
HttpsScheme == <<"h", "t", "t", "p", "s", ":", "/", "/">>
ImgPng == <<"i", "m", "g", ".", "p", "n", "g">>

\* global.domain; src/data/global.yml sets it, https://example.com here.
Domain == <<"h", "t", "t", "p", "s", ":", "/", "/", "e", "x", "a", "m", "p", "l", "e", ".", "c", "o", "m">>

CharClass_SlashOnly == {"/"}

\* The characters of the class [^(https://)]: the match needs a character
\* that is none of these.
CharClass == {"(", "h", "t", "p", "s", ":", "/", ")"}

StartsWithAt(s, i, pre) ==
    /\ i + Len(pre) - 1 <= Len(s)
    /\ SubSeq(s, i, i + Len(pre) - 1) = pre

\* The length of reg's match at position i, 0 if there is none; the
\* alternatives are tried in the order the expression lists them.
MatchLenAt(s, i) ==
    LET NotInClass(k) == k <= Len(s) /\ s[k] \notin CharClass
    IN  CASE StartsWithAt(s, i, SrcQuote) /\ NotInClass(i + Len(SrcQuote))
                -> Len(SrcQuote) + 1
          [] StartsWithAt(s, i, SrcQuote \o Slash) -> Len(SrcQuote) + 1
          [] StartsWithAt(s, i, HrefQuote) /\ NotInClass(i + Len(HrefQuote))
                -> Len(HrefQuote) + 1
          [] StartsWithAt(s, i, HrefQuote \o Slash) -> Len(HrefQuote) + 1
          [] OTHER -> 0

\* match.slice(0, -1) and match.slice(-1)
AllButLast(m) == SubSeq(m, 1, Len(m) - 1)
LastOf(m) == SubSeq(m, Len(m), Len(m))

\* The replacer function of content.replace.
Replacement(match, prefix) ==
    IF match = SrcQuote \o Slash \/ match = HrefQuote \o Slash
    THEN AllButLast(match) \o prefix
    ELSE AllButLast(match) \o prefix \o LastOf(match)

RECURSIVE ReplaceFrom(_, _, _)
\* String.prototype.replace with a global expression: the matches are taken
\* left to right, each search starting where the last match ended.
ReplaceFrom(s, i, prefix) ==
    IF i > Len(s) THEN <<>>
    ELSE LET n == MatchLenAt(s, i) IN
         IF n = 0
         THEN <<s[i]>> \o ReplaceFrom(s, i + 1, prefix)
         ELSE Replacement(SubSeq(s, i, i + n - 1), prefix)
                \o ReplaceFrom(s, i + n, prefix)

\* The callback of config.addFilter('absolute').
Absolute(c, article) == ReplaceFrom(c, 1, Domain \o article.url)

\* The pieces the filter's inputs are put together from.
Chunks == {SrcQuote, HrefQuote, HttpsScheme, Slash, ImgPng, Quote, <<" ">>}

RECURSIVE Concat(_)
Concat(ss) == IF ss = <<>> THEN <<>> ELSE Head(ss) \o Concat(Tail(ss))

AbsContents == { Concat(ss) : ss \in UNION { [1..n -> Chunks] : n \in 0..MaxChunks } }

ArticleUrls == { <<"/", "p", "o", "s", "t", "s", "/", "a", "/">>, Slash }

AbsStart(c, url) ==
    /\ absContent = c
    /\ absArticle = [url |-> url]
    /\ absOutput = <<>>
    /\ absPc = "ready"

\* A template applies the filter.
ApplyAbsolute ==
    /\ absPc = "ready"
    /\ absOutput' = Absolute(absContent, absArticle)
    /\ absPc' = "done"
    /\ UNCHANGED <<absContent, absArticle, collVars, htmlVars, tplVars,
                   filterVars>>

AbsNext == ApplyAbsolute

----------------------------------------------------------------------------
(* The CSS and JS template formats and the 'css' filter                     *)

Styles_WithoutDark == <<"./src/styles/index.css", "./src/styles/light.css">>

\* The entry points of the `styles` array.
Styles ==
    <<"./src/styles/index.css", "./src/styles/light.css",
      "./src/styles/dark.css">>

\* Array.prototype.includes
Includes(arr, x) == \E i \in 1..Len(arr) : arr[i] = x

\* compile of config.addExtension('css'): nothing, or the render function.
CssCompile(p) == IF ~Includes(Styles, p) THEN "undefined" ELSE "render"

\* compile of config.addExtension('js')
JsCompile(p) == IF p # "./src/scripts/index.js" THEN "undefined" ELSE "render"

\* The files the engine finds for the two template formats.
TemplateFiles ==
    { [path |-> "./src/styles/index.css", ext |-> "css"],
      [path |-> "./src/styles/light.css", ext |-> "css"],
      [path |-> "./src/styles/dark.css", ext |-> "css"],
      [path |-> "./src/styles/print.css", ext |-> "css"],
      [path |-> "./src/styles/blocks/index.css", ext |-> "css"],
      [path |-> "src/styles/index.css", ext |-> "css"],
      [path |-> "./src/scripts/index.js", ext |-> "js"],
      [path |-> "./src/scripts/menu.js", ext |-> "js"],
      [path |-> "./src/articles/a/index.js", ext |-> "js"],
      [path |-> "src/scripts/index.js", ext |-> "js"] }

AssetsStart(f) ==
    /\ tplPath = f.path
    /\ tplExt = f.ext
    /\ compiled = "pending"
    /\ rendered = "no"
    /\ procCalls = 0
    /\ emitted = FALSE
    /\ fPc = "idle"
    /\ fRead = "pending"
    /\ fProcess = "pending"
    /\ cbCalls = <<>>

AssetsIdle == AssetsStart([path |-> "./src/styles/index.css", ext |-> "css"])

\* The engine asks the css format to compile the template.
CssCompileCall ==
    /\ tplExt = "css"
    /\ compiled = "pending"
    /\ compiled' = CssCompile(tplPath)
    /\ UNCHANGED <<tplPath, tplExt, rendered, procCalls, emitted, filterVars,
                   collVars, htmlVars, absVars>>

\* The engine asks the js format to compile the template.
JsCompileCall ==
    /\ tplExt = "js"
    /\ compiled = "pending"
    /\ compiled' = JsCompile(tplPath)
    /\ UNCHANGED <<tplPath, tplExt, rendered, procCalls, emitted, filterVars,
                   collVars, htmlVars, absVars>>

\* The engine calls the render function compile returned and writes what it
\* returns; when compile returned nothing there is no function to call and
\* no file is written.  postcss may reject.
CssRender ==
    /\ tplExt = "css"
    /\ compiled = "render"
    /\ rendered = "no"
    /\ procCalls' = procCalls + 1
    /\ \/ rendered' = "ok" /\ emitted' = TRUE
       \/ rendered' = "failed" /\ UNCHANGED emitted
    /\ UNCHANGED <<tplPath, tplExt, compiled, filterVars, collVars, htmlVars,
                   absVars>>

\* The same for the js format, where esbuild.build may reject.
JsRender ==
    /\ tplExt = "js"
    /\ compiled = "render"
    /\ rendered = "no"
    /\ procCalls' = procCalls + 1
    /\ \/ rendered' = "ok" /\ emitted' = TRUE
       \/ rendered' = "failed" /\ UNCHANGED emitted
    /\ UNCHANGED <<tplPath, tplExt, compiled, filterVars, collVars, htmlVars,
                   absVars>>

\* A template applies the 'css' filter: fs.readFile is started.
CssFilterCall ==
    /\ fPc = "idle"
    /\ fPc' = "reading"
    /\ UNCHANGED <<fRead, fProcess, cbCalls, tplVars, collVars, htmlVars,
                   absVars>>

\* The callback of fs.readFile runs, with an error or with the content; it
\* looks at neither and hands the content (undefined after an error) to
\* postcss.
ReadFileDone ==
    /\ fPc = "reading"
    /\ fRead' \in {"ok", "error"}
    /\ fPc' = "processing"
    /\ UNCHANGED <<fProcess, cbCalls, tplVars, collVars, htmlVars, absVars>>

\* The promise of process() resolves: then's function calls the callback.
ProcessResolved ==
    /\ fPc = "processing"
    /\ fRead = "ok"
    /\ fProcess' = "resolved"
    /\ cbCalls' = Append(cbCalls, [err |-> "null", css |-> "output.css"])
    /\ fPc' = "calledback"
    /\ UNCHANGED <<fRead, tplVars, collVars, htmlVars, absVars>>

\* The promise of process() rejects (always so for undefined content): then
\* was given no function for that, the chain ends in an unhandled rejection.
ProcessRejected ==
    /\ fPc = "processing"
    /\ fProcess' = "rejected"
    /\ fPc' = "unhandled"
    /\ UNCHANGED <<fRead, cbCalls, tplVars, collVars, htmlVars, absVars>>

\* What the runtime does with an unhandled rejection depends on its version
\* and flags: it ends the process, or it warns and goes on, the filter's
\* callback still not called.
UnhandledRejection ==
    /\ fPc = "unhandled"
    /\ fPc' \in {"crashed", "hung"}
    /\ UNCHANGED <<fRead, fProcess, cbCalls, tplVars, collVars, htmlVars,
                   absVars>>

AssetsNext ==
    \/ CssCompileCall
    \/ JsCompileCall
    \/ CssRender
    \/ JsRender
    \/ CssFilterCall
    \/ ReadFileDone
    \/ ProcessResolved
    \/ ProcessRejected
    \/ UnhandledRejection

----------------------------------------------------------------------------
(* Specifications                                                           *)

\* Each specification runs one part of the configuration and leaves the
\* other parts in their initial state.
CollIdle == CollStart(<<>>)
HtmlIdle == HtmlStart([present |-> FALSE, chars |-> <<>>], <<>>)
AbsIdle == AbsStart(<<>>, Slash)

InitCollections ==
    /\ \E all \in ItemLists : CollStart(all)
    /\ HtmlIdle /\ AbsIdle /\ AssetsIdle

SpecCollections == InitCollections /\ [][CollNext]_vars

InitHtml ==
    /\ \E p \in OutputPaths, c \in Contents : HtmlStart(p, c)
    /\ CollIdle /\ AbsIdle /\ AssetsIdle

SpecHtml == InitHtml /\ [][HtmlNext]_vars

InitAbsolute ==
    /\ \E c \in AbsContents, url \in ArticleUrls : AbsStart(c, url)
    /\ CollIdle /\ HtmlIdle /\ AssetsIdle

SpecAbsolute == InitAbsolute /\ [][AbsNext]_vars

InitAssets ==
    /\ \E f \in TemplateFiles : AssetsStart(f)
    /\ CollIdle /\ HtmlIdle /\ AbsIdle

SpecAssets == InitAssets /\ [][AssetsNext]_vars

----------------------------------------------------------------------------
(* Claims                                                                   *)


IsDraft(item) == item.data.draft = "true"

\* C1: neither the 'articles' nor the 'sitemap' collection ever contains an
\* item whose metadata marks it as a draft.
C1_NoDraftInCollections ==
    \A name \in built :
        \A i \in 1..Len(collection[name]) : ~IsDraft(collection[name][i])

\* A draft article and a draft page exist and both collections are built.
C1_Witness ==
    /\ built = {"articles", "sitemap"}
    /\ \E i \in 1..Len(items) :
        IsDraft(items[i]) /\ GlobMatch(ArticlesGlob, items[i].inputPath)
    /\ \E i \in 1..Len(items) :
        IsDraft(items[i]) /\ GlobMatch(PagesGlob, items[i].inputPath)
    /\ Len(collection.sitemap) > 0

\* C6: each non-draft article matching the articles glob appears exactly
\* once in 'articles' and exactly once in 'sitemap'.
C6_ArticlesExactlyOnce ==
    \A name \in built :
        \A i \in 1..Len(items) :
            (GlobMatch(ArticlesGlob, items[i].inputPath) /\ ~IsDraft(items[i]))
                => Count(collection[name], items[i]) = 1

\* Two published articles (one with no draft flag at all), a page and both
\* collections built.
C6_Witness ==
    /\ built = {"articles", "sitemap"}
    /\ Len(collection.articles) = 2
    /\ Len(collection.sitemap) = 3
    /\ \E i \in 1..Len(items) :
        /\ items[i].data.draft = "undefined"
        /\ GlobMatch(ArticlesGlob, items[i].inputPath)


\* The log entries of one transform.
Runs(name) == {k \in 1..Len(log) : log[k].t = name}

\* The content html-transform was called with.
TransformInput ==
    IF Runs("html-transform") # {}
    THEN log[CHOOSE k \in Runs("html-transform") : TRUE].in
    ELSE content

PassesBefore(i) == SubSeq(HtmlTransforms, 1, i - 1)

\* C2: every HTML output is minified exactly once, and html-minify runs on
\* the content html-transform produced, never before it.
C2_MinifyAfterTransform ==
    (engine = "done" /\ PathEndsWith(path, DotHtml)) =>
        /\ Cardinality(Runs("html-minify")) = 1
        /\ \A k \in Runs("html-minify") :
            \E j \in Runs("html-transform") : j < k /\ log[k].in = log[j].out

\* C3: the passes run in declaration order, each completes before the next
\* starts, each receives the document as mutated by all prior passes, and
\* html-transform returns the serialization of the document after the last.
C3_PassesInSequence ==
    /\ \A i \in 1..Len(HtmlTransforms) :
        passState[HtmlTransforms[i]] # "idle" =>
            /\ \A j \in 1..(i - 1) : passState[HtmlTransforms[j]] = "done"
            /\ seen[HtmlTransforms[i]] = TransformInput \o PassesBefore(i)
    /\ (returned.has /\ PathEndsWith(path, DotHtml)) =>
        /\ \A p \in Passes : passState[p] = "done"
        /\ returned.value = TransformInput \o HtmlTransforms

\* html-transform has returned for an HTML file after a run in which two
\* passes suspended.
C3_Witness ==
    /\ returned.has
    /\ PathEndsWith(path, DotHtml)
    /\ awaited = {"demos", "images"}
    /\ Len(TransformInput) = 2

\* C7: if a pass throws or its promise rejects, no later pass is run,
\* html-transform returns no content, and the error reaches the engine
\* unmodified.
C7_ThrowAborts ==
    thrown.raised =>
        /\ tstate = "rejected"
        /\ \A j \in (PassIndex(thrown.pass) + 1)..Len(HtmlTransforms) :
            passState[HtmlTransforms[j]] = "idle"
        /\ ~returned.has
        /\ Runs("html-transform") = {}
        /\ engine \in {"running", "aborted"}
        /\ rejection = thrown.error
        /\ engine = "aborted" => engineError = thrown.error

\* The promise of the third pass rejected after a suspension and the engine
\* has received its error.
C7_Witness ==
    /\ engine = "aborted"
    /\ thrown.pass = "figure"
    /\ "figure" \in awaited
    /\ engineError = "E2"

\* C8: for a path that is absent or does not end in '.html', html-minify
\* and html-transform return the content unchanged without parsing or
\* running a pass; for a path not ending in '.xml' xmlMin returns it
\* unchanged; a file that is neither is identical to its input at the end.
C8_OtherTypesUnchanged ==
    LET notHtml == ~path.present \/ ~EndsWith(path.chars, DotHtml)
        notXml == ~path.present \/ ~EndsWith(path.chars, DotXml)
        Same(name) == \A k \in Runs(name) : log[k].out = log[k].in
    IN  /\ notHtml =>
            /\ Same("html-minify")
            /\ Same("html-transform")
            /\ parses = 0
            /\ \A p \in Passes : passState[p] = "idle"
        /\ notXml => Same("xmlMin")
        /\ (notHtml /\ notXml /\ engine = "done") =>
            /\ content = original
            /\ Len(log) = Len(Registered)

\* A file whose path only contains '.html', with a comment in it, has been
\* through the three transforms.
C8_Witness ==
    /\ engine = "done"
    /\ path.chars = <<"a">> \o DotHtml \o <<"~">>
    /\ original = <<"cmt", "ws">>
    /\ Len(log) = 3


\* The positions where an attribute with an absolute https URL starts.
HttpsAttrStarts(s) ==
    { i \in 1..Len(s) :
        \/ StartsWithAt(s, i, SrcQuote \o HttpsScheme)
        \/ StartsWithAt(s, i, HrefQuote \o HttpsScheme) }

\* The position of the quote that closes the attribute starting at i (the
\* end of the string if none does).
AttrEnd(s, i) ==
    LET open == CHOOSE k \in i..Len(s) : s[k] = "\""
        closing == {k \in (open + 1)..Len(s) : s[k] = "\""}
    IN  IF closing = {} THEN Len(s)
        ELSE CHOOSE k \in closing : \A k2 \in closing : k <= k2

\* C4: with domain https://example.com and article URL /posts/a/ (or any
\* other), src="/img.png" becomes src="https://example.com/img.png", and
\* the same for href: a root-relative '/X' becomes the domain then '/X'.
C4_RootRelativeRewritten ==
    absPc = "done" =>
        \A attr \in {SrcQuote, HrefQuote} :
            absContent = attr \o Slash \o ImgPng \o Quote
                => absOutput = attr \o Domain \o Slash \o ImgPng \o Quote

\* C5: every src/href attribute whose value is an absolute https:// URL is
\* in the output as it was in the input, right after the rewritten text
\* that precedes it.
C5_HttpsUnchanged ==
    absPc = "done" =>
        \A i \in HttpsAttrStarts(absContent) :
            LET j == AttrEnd(absContent, i)
                before == Absolute(SubSeq(absContent, 1, i - 1), absArticle)
            IN  /\ Len(absOutput) >= Len(before) + (j - i + 1)
                /\ SubSeq(absOutput, 1, Len(before)) = before
                /\ SubSeq(absOutput, Len(before) + 1, Len(before) + (j - i + 1))
                     = SubSeq(absContent, i, j)

\* The filter has run on an https attribute whose value ends in 'src=', so
\* that the expression matches across the attribute's closing quote.
C5_Witness ==
    /\ absPc = "done"
    /\ absContent = SrcQuote \o HttpsScheme \o SrcQuote \o ImgPng
    /\ Len(absOutput) > Len(absContent)

\* C9: compile returns a render function exactly for the three style entry
\* points (css) and for ./src/scripts/index.js (js); for any other path it
\* returns nothing, no processor or bundler is called and no file is
\* written.
C9_OnlyEntryPointsCompile ==
    LET entry ==
            \/ /\ tplExt = "css"
               /\ tplPath \in {"./src/styles/index.css",
                               "./src/styles/light.css",
                               "./src/styles/dark.css"}
            \/ tplExt = "js" /\ tplPath = "./src/scripts/index.js"
    IN  /\ compiled # "pending" => (compiled = "render" <=> entry)
        /\ ~entry => (procCalls = 0 /\ ~emitted /\ rendered = "no")
        /\ emitted => (entry /\ procCalls = 1)

\* The dark style sheet has been compiled, rendered and written.
C9_Witness ==
    /\ tplPath = "./src/styles/dark.css"
    /\ compiled = "render"
    /\ emitted
    /\ procCalls = 1

FilterEnded == fPc \in {"calledback", "crashed", "hung"}

\* C10: on every call of the 'css' filter the callback is called exactly
\* once, and with the error when reading or processing failed.
C10_CallbackGetsError ==
    FilterEnded =>
        /\ Len(cbCalls) = 1
        /\ (fRead = "error" \/ fProcess = "rejected") => cbCalls[1].err # "null"

====
